---------------------------- MODULE Spec2Model ----------------------------
(***************************************************************************)
(* Model of the Flask news-analysis service (src/app.py).                  *)
(*                                                                         *)
(* Two request handlers, analyze (POST /analyze) and analyze_local         *)
(* (GET /analyze_local), run as concurrent threads of control.  Each       *)
(* handler is cut into steps at the calls that leave the process (the      *)
(* article-extraction library, the NLP library, the file system, the       *)
(* logger), so that other requests and the file system's other users can   *)
(* act in between.                                                         *)
(*                                                                         *)
(* Text is a sequence of one-character strings.  Scores of the NLP library *)
(* are integers in thousandths (polarity -1000..1000, subjectivity         *)
(* 0..1000), each standing for the double nearest to k/1000; the reported  *)
(* polarity is in hundredths.                                              *)
(***************************************************************************)
EXTENDS Integers, Sequences, FiniteSets

VARIABLES
    file,   \* sample_article.txt: [exists, text]
    log,    \* app.logger: per request, the records it emitted, in order
    req     \* per request: the handler's position, locals and response

vars == <<file, log, req>>

(***************************************************************************)
(* Bounds of the model                                                     *)
(***************************************************************************)
NumReq == 2        \* concurrent requests
MaxWords == 500    \* longest text, in words

Req == 1..NumReq

(***************************************************************************)
(* Python values and text                                                  *)
(***************************************************************************)
PyNone == [t |-> "none", v |-> ""]
PyStr(s) == [t |-> "str", v |-> s]

\* `not x` is False exactly for a non-empty string (None and '' are falsy)
Truthy(x) == x.t = "str" /\ x.v # ""

\* dict.get(key): the value, or None when the key is missing
DictGet(d, k) == IF k \in DOMAIN d THEN d[k] ELSE PyNone

EmptyDict == [k \in {} |-> PyNone]

Whitespace == {" ", "\n", "\t"}

\* str.strip() leaves nothing exactly when every character is whitespace
IsBlank(t) == \A i \in 1..Len(t) : t[i] \in Whitespace

\* len(str.split()): the number of maximal runs of non-whitespace
WordCount(t) ==
    Cardinality({i \in 1..Len(t) :
                    /\ t[i] \notin Whitespace
                    /\ (i = 1 \/ t[i - 1] \in Whitespace)})

\* text[:n]
Prefix(t, n) == SubSeq(t, 1, IF Len(t) < n THEN Len(t) ELSE n)

\* str(n) for n >= 0, as a sequence of digit characters
RECURSIVE Digits(_)
Digits(n) ==
    LET d == <<"0", "1", "2", "3", "4", "5", "6", "7", "8", "9">>[(n % 10) + 1]
    IN  IF n < 10 THEN <<d>> ELSE Append(Digits(n \div 10), d)

\* sep.join(names)
RECURSIVE Join(_, _)
Join(names, sep) ==
    IF names = <<>> THEN <<>>
    ELSE IF Len(names) = 1 THEN names[1]
    ELSE names[1] \o sep \o Join(Tail(names), sep)

NA == <<"N", "/", "A">>
Ellipsis == <<".", ".", ".">>

\* x or 'N/A'
OrNA(s) == IF s = <<>> THEN NA ELSE s

(***************************************************************************)
(* Derived fields (app.py 64-71 and 108-115)                               *)
(***************************************************************************)
\* The k in 0..99 for which the double nearest to (10k+5)/1000 lies above the
\* decimal tie, so that round(., 2) gives (k+1)/100; for the others it lies
\* below, or is the tie itself (125, 375, 625, 875) and rounds to even.
TiesUp ==
    {0, 2, 3, 5, 6, 8, 9, 11, 13, 16, 19, 22, 25, 26, 27, 31, 32, 33, 37, 38,
     39, 40, 44, 45, 46, 50, 51, 52, 53, 54, 55, 63, 64, 65, 66, 67, 68, 75,
     76, 77, 78, 79, 80, 87, 88, 89, 90, 91, 92, 93}

\* round(x, 2) of a non-negative score in thousandths, in hundredths
RoundAbs2(p) ==
    LET q == p \div 10
        r == p % 10
    IN  IF r < 5 THEN q
        ELSE IF r > 5 THEN q + 1
        ELSE IF q \in TiesUp THEN q + 1 ELSE q

\* round(analysis.polarity, 2); rounding is symmetric about 0
Round2(p) == IF p < 0 THEN 0 - RoundAbs2(0 - p) ELSE RoundAbs2(p)

\* variant of Sentiment: a zero polarity counted as positive
SentimentStrict(polarity) ==
    IF polarity >= 0 THEN "Positive" ELSE "Negative"

\* 'Positive' if polarity > 0 else 'Negative' if polarity < 0 else 'Neutral'
Sentiment(polarity) ==
    IF polarity > 0 THEN "Positive"
    ELSE IF polarity < 0 THEN "Negative" ELSE "Neutral"

\* variant of Bias: 0.7 itself still counted as moderate
BiasSwapped(subjectivity) ==
    IF subjectivity < 300 THEN "Low"
    ELSE IF subjectivity <= 700 THEN "Moderate" ELSE "High"

\* 'Low' if subjectivity < 0.3 else 'Moderate' if subjectivity < 0.7 else 'High'
Bias(subjectivity) ==
    IF subjectivity < 300 THEN "Low"
    ELSE IF subjectivity < 700 THEN "Moderate" ELSE "High"

\* 'True' if subjectivity < 0.5 else 'False'
Credibility(subjectivity) == IF subjectivity < 500 THEN "True" ELSE "False"

\* variant of ReadingMinutes: an exact half rounded up
ReadingMinutesHalfUp(word_count) == (word_count + 100) \div 200

\* round(word_count / 200): to the nearest integer, an exact half to the even one
ReadingMinutes(word_count) ==
    LET q == word_count \div 200
        r == word_count % 200
    IN  IF r < 100 THEN q
        ELSE IF r > 100 THEN q + 1
        ELSE IF q % 2 = 0 THEN q ELSE q + 1

\* f"{round(word_count / 200)} min read"
ReadingTime(word_count) ==
    Digits(ReadingMinutes(word_count)) \o <<" min read">>

\* variant of SummaryLocal: the suffix added from 300 characters on
SummaryLocalOffByOne(text) ==
    Prefix(text, 300) \o (IF Len(text) >= 300 THEN Ellipsis ELSE <<>>)

\* text[:300] + ('...' if len(text) > 300 else '')
SummaryLocal(text) ==
    Prefix(text, 300) \o (IF Len(text) > 300 THEN Ellipsis ELSE <<>>)

(***************************************************************************)
(* Requests, responses, exceptions                                         *)
(***************************************************************************)
\* What the extraction library holds of a page: nothing before download()
NoDoc == [text |-> <<>>, title |-> <<>>, authors |-> <<>>, summary |-> <<>>]

\* Article(url) before parse(): every field empty
NoArticle == [text |-> <<>>, title |-> <<>>, authors |-> <<>>, summary |-> <<>>]

NoScore == [pol |-> 0, subj |-> 0]
NoResponse == [status |-> 0, body |-> EmptyDict]
NoCalls == [download |-> 0, parse |-> 0, nlp |-> 0, blob |-> 0]

\* the request's JSON payload: absent, the JSON value null, or a JSON object
NoJson == [json |-> "absent", obj |-> EmptyDict]
JsonNull == [json |-> "null", obj |-> EmptyDict]
JsonObj(d) == [json |-> "object", obj |-> d]

Payloads ==
    {NoJson, JsonNull, JsonObj(EmptyDict),
     JsonObj([url |-> PyNone]), JsonObj([url |-> PyStr("")]),
     JsonObj([url |-> PyStr("http://a")])}

\* messages of the exceptions the handlers can meet
Err415 == <<"415 Unsupported Media Type">>
ErrNoneGet == <<"NoneType object has no attribute get">>
ErrDownload == <<"download failed">>
ErrParse == <<"parse failed">>
ErrNlp == <<"nlp failed">>
ErrBlob == <<"Resource punkt not found">>
ErrNoFile == <<"[Errno 2] No such file or directory: sample_article.txt">>
ErrIO == <<"[Errno 13] Permission denied: sample_article.txt">>

IdleReq ==
    [pc |-> "idle", kind |-> "none", payload |-> NoJson, url |-> PyNone,
     doc |-> NoDoc, art |-> NoArticle, sawFile |-> FALSE, text |-> <<>>,
     score |-> NoScore, exc |-> <<>>, calls |-> NoCalls, resp |-> NoResponse]

JsonError(status, msg) == [status |-> status, body |-> [error |-> msg]]

\* the response dict of lines 73-83 and 117-127
Analysis(title, author, summary, text, score) ==
    [title |-> title,
     author |-> author,
     summary |-> summary,
     sentiment |-> Sentiment(Round2(score.pol)),
     polarity |-> Round2(score.pol),
     bias |-> Bias(score.subj),
     credibility |-> Credibility(score.subj),
     word_count |-> WordCount(text),
     reading_time |-> ReadingTime(WordCount(text))]

\* variant of TextMissing: `article.text is None`, which an Article never has
TextMissingIsNone(article) == FALSE

\* `not article.text`
TextMissing(article) == article.text = <<>>

\* variant of ArticleOf: one article object shared by all requests
ArticleOfFirst(r) == req[1].art

\* `article`, a local of the handler
ArticleOf(r) == req[r].art

Emit(r, level, msg) ==
    log' = [log EXCEPT ![r] = Append(@, [level |-> level, msg |-> msg])]

(***************************************************************************)
(* POST /analyze  (app.py 46-88)                                           *)
(***************************************************************************)
\* a request arrives and is routed to its handler
Receive(r, kind, payload) ==
    /\ req[r].pc = "idle"
    /\ req' = [req EXCEPT ![r] = [@ EXCEPT
                 !.pc = IF kind = "analyze" THEN "validate" ELSE "exists",
                 !.kind = kind, !.payload = payload]]
    /\ UNCHANGED <<file, log>>


\* lines 49-53: read the JSON payload, log it, take the URL out of it
AnalyzeValidate(r) ==
    /\ req[r].pc = "validate"
    /\ LET p == req[r].payload
           url == DictGet(p.obj, "url")
       IN  \/ \* get_json() refuses a request that carries no JSON
              /\ p.json = "absent"
              /\ req' = [req EXCEPT ![r] = [@ EXCEPT !.pc = "except", !.exc = Err415]]
              /\ UNCHANGED log
           \/ \* get_json() gives None: None.get raises AttributeError
              /\ p.json \in {"absent", "null"}
              /\ Emit(r, "debug", <<"Received request: ">>)
              /\ req' = [req EXCEPT ![r] = [@ EXCEPT !.pc = "except", !.exc = ErrNoneGet]]
           \/ /\ p.json = "object"
              /\ ~Truthy(url)
              /\ Emit(r, "debug", <<"Received request: ">>)
              /\ req' = [req EXCEPT ![r] = [@ EXCEPT
                           !.pc = "done", !.url = url,
                           !.resp = JsonError(400, <<"No URL provided">>)]]
           \/ /\ p.json = "object"
              /\ Truthy(url)
              /\ Emit(r, "debug", <<"Received request: ">>)
              /\ req' = [req EXCEPT ![r] = [@ EXCEPT !.pc = "download", !.url = url]]
    /\ UNCHANGED file

\* lines 55-56: Article(url); article.download()
AnalyzeDownload(r, Docs) ==
    /\ req[r].pc = "download"
    /\ \/ \E d \in Docs :
            req' = [req EXCEPT ![r] = [@ EXCEPT
                      !.pc = "parse", !.doc = d,
                      !.calls.download = @ + 1]]
       \/ req' = [req EXCEPT ![r] = [@ EXCEPT
                    !.pc = "except", !.exc = ErrDownload,
                    !.calls.download = @ + 1]]
    /\ UNCHANGED <<file, log>>

\* line 57: article.parse() fills text, title and authors
AnalyzeParse(r) ==
    /\ req[r].pc = "parse"
    /\ \/ req' = [req EXCEPT ![r] = [@ EXCEPT
                    !.pc = "nlp",
                    !.art = [text |-> req[r].doc.text, title |-> req[r].doc.title,
                             authors |-> req[r].doc.authors, summary |-> <<>>],
                    !.calls.parse = @ + 1]]
       \/ req' = [req EXCEPT ![r] = [@ EXCEPT
                    !.pc = "except", !.exc = ErrParse,
                    !.calls.parse = @ + 1]]
    /\ UNCHANGED <<file, log>>

\* line 58: article.nlp() fills summary
AnalyzeNlp(r) ==
    /\ req[r].pc = "nlp"
    /\ \/ req' = [req EXCEPT ![r] = [@ EXCEPT
                    !.pc = "respond",
                    !.art.summary = req[r].doc.summary,
                    !.calls.nlp = @ + 1]]
       \/ req' = [req EXCEPT ![r] = [@ EXCEPT
                    !.pc = "except", !.exc = ErrNlp,
                    !.calls.nlp = @ + 1]]
    /\ UNCHANGED <<file, log>>

\* lines 60-84: refuse an empty text, else score it and answer
AnalyzeRespond(r, Scores) ==
    /\ req[r].pc = "respond"
    /\ LET article == ArticleOf(r)
       IN  \/ /\ TextMissing(article)
              /\ req' = [req EXCEPT ![r] = [@ EXCEPT
                           !.pc = "done",
                           !.resp = JsonError(400, <<"Unable to fetch article content">>)]]
           \/ /\ ~TextMissing(article)
              /\ \E sc \in Scores :
                   req' = [req EXCEPT ![r] = [@ EXCEPT
                             !.pc = "done", !.score = sc,
                             !.calls.blob = @ + 1,
                             !.resp = [status |-> 200,
                                       body |-> Analysis(OrNA(article.title),
                                                         OrNA(Join(article.authors, <<",", " ">>)),
                                                         OrNA(article.summary),
                                                         article.text, sc)]]]
           \/ /\ ~TextMissing(article)
              /\ req' = [req EXCEPT ![r] = [@ EXCEPT
                           !.pc = "except", !.exc = ErrBlob,
                           !.calls.blob = @ + 1]]
    /\ UNCHANGED <<file, log>>

\* variant of AnalyzeExceptLog: the except clause without its logger call
AnalyzeExceptSkipLog(r) ==
    /\ req[r].pc = "except"
    /\ req[r].kind = "analyze"
    /\ req' = [req EXCEPT ![r] = [@ EXCEPT !.pc = "except_logged"]]
    /\ UNCHANGED <<file, log>>

\* line 87: app.logger.error(...)
AnalyzeExceptLog(r) ==
    /\ req[r].pc = "except"
    /\ req[r].kind = "analyze"
    /\ Emit(r, "error", <<"Error analyzing article: ">> \o req[r].exc)
    /\ req' = [req EXCEPT ![r] = [@ EXCEPT !.pc = "except_logged"]]
    /\ UNCHANGED file

\* variant of AnalyzeExceptReturn: the bare message, as analyze_local gives it
AnalyzeExceptReturnBare(r) ==
    /\ req[r].pc = "except_logged"
    /\ req[r].kind = "analyze"
    /\ req' = [req EXCEPT ![r] = [@ EXCEPT
                 !.pc = "done", !.resp = JsonError(500, req[r].exc)]]
    /\ UNCHANGED <<file, log>>

\* line 88: the 500 response
AnalyzeExceptReturn(r) ==
    /\ req[r].pc = "except_logged"
    /\ req[r].kind = "analyze"
    /\ req' = [req EXCEPT ![r] = [@ EXCEPT
                 !.pc = "done",
                 !.resp = JsonError(500, <<"Failed to analyze article: ">> \o req[r].exc)]]
    /\ UNCHANGED <<file, log>>

(***************************************************************************)
(* GET /analyze_local  (app.py 91-131)                                     *)
(***************************************************************************)
\* lines 97-99: os.path.exists(sample_path)
LocalExists(r) ==
    /\ req[r].pc = "exists"
    /\ IF file.exists
       THEN req' = [req EXCEPT ![r] = [@ EXCEPT !.pc = "read", !.sawFile = TRUE]]
       ELSE req' = [req EXCEPT ![r] = [@ EXCEPT
                      !.pc = "done",
                      !.resp = JsonError(400, <<"sample_article.txt not found">>)]]
    /\ UNCHANGED <<file, log>>

\* lines 101-102: open the file and read it whole
LocalRead(r) ==
    /\ req[r].pc = "read"
    /\ \/ /\ file.exists
          /\ req' = [req EXCEPT ![r] = [@ EXCEPT !.pc = "local_respond", !.text = file.text]]
       \/ /\ ~file.exists
          /\ req' = [req EXCEPT ![r] = [@ EXCEPT !.pc = "except", !.exc = ErrNoFile]]
       \/ /\ file.exists
          /\ req' = [req EXCEPT ![r] = [@ EXCEPT !.pc = "except", !.exc = ErrIO]]
    /\ UNCHANGED <<file, log>>

\* lines 104-128: refuse a blank text, else score it and answer
LocalRespond(r, Scores) ==
    /\ req[r].pc = "local_respond"
    /\ LET text == req[r].text
       IN  \/ /\ IsBlank(text)
              /\ req' = [req EXCEPT ![r] = [@ EXCEPT
                           !.pc = "done",
                           !.resp = JsonError(400, <<"sample article is empty">>)]]
           \/ /\ ~IsBlank(text)
              /\ \E sc \in Scores :
                   req' = [req EXCEPT ![r] = [@ EXCEPT
                             !.pc = "done", !.score = sc,
                             !.calls.blob = @ + 1,
                             !.resp = [status |-> 200,
                                       body |-> Analysis(<<"Sample Article">>,
                                                         <<"Local Test">>,
                                                         SummaryLocal(text),
                                                         text, sc)]]]
           \/ /\ ~IsBlank(text)
              /\ req' = [req EXCEPT ![r] = [@ EXCEPT
                           !.pc = "except", !.exc = ErrBlob,
                           !.calls.blob = @ + 1]]
    /\ UNCHANGED <<file, log>>

\* line 130: app.logger.error(...)
LocalExceptLog(r) ==
    /\ req[r].pc = "except"
    /\ req[r].kind = "analyze_local"
    /\ Emit(r, "error", <<"Error analyzing local article: ">> \o req[r].exc)
    /\ req' = [req EXCEPT ![r] = [@ EXCEPT !.pc = "except_logged"]]
    /\ UNCHANGED file

\* line 131: the 500 response
LocalExceptReturn(r) ==
    /\ req[r].pc = "except_logged"
    /\ req[r].kind = "analyze_local"
    /\ req' = [req EXCEPT ![r] = [@ EXCEPT
                 !.pc = "done", !.resp = JsonError(500, req[r].exc)]]
    /\ UNCHANGED <<file, log>>

(***************************************************************************)
(* The file system's other users                                           *)
(***************************************************************************)
RemoveFile ==
    /\ file.exists
    /\ file' = [exists |-> FALSE, text |-> <<>>]
    /\ UNCHANGED <<log, req>>

WriteFile(t) ==
    /\ file # [exists |-> TRUE, text |-> t]
    /\ file' = [exists |-> TRUE, text |-> t]
    /\ UNCHANGED <<log, req>>

(***************************************************************************)
(* Inputs: pages, file contents and scores the collaborators can give      *)
(***************************************************************************)
Letter(i) == <<"a", "b", "c">>[(i % 3) + 1]

\* n one-letter words separated by single spaces
Words(n) ==
    [i \in 1..(IF n = 0 THEN 0 ELSE 2 * n - 1) |->
        IF i % 2 = 1 THEN Letter((i + 1) \div 2) ELSE " "]

GoodNews ==
    <<"G", "o", "o", "d", " ", "n", "e", "w", "s", " ",
      "t", "o", "d", "a", "y", ".">>

Page(text, title, authors, summary) ==
    [text |-> text, title |-> title, authors |-> authors, summary |-> summary]

EmptyPage == Page(<<>>, <<"T">>, <<>>, <<>>)
NewsPage == Page(GoodNews, <<"T">>, <<<<"A">>, <<"B">>>>, <<"S">>)

Scored(p, s) == [pol |-> p, subj |-> s]

SmallDocs == {EmptyPage, NewsPage}
SmallScores == {Scored(500, 200), Scored(3, 800)}
SmallTexts == {<<" ", "\n">>, GoodNews}

\* every polarity with one subjectivity, every subjectivity with one polarity
WideScores ==
    {Scored(p, 500) : p \in -1000..1000} \cup {Scored(0, s) : s \in 0..1000}

\* pages of every length up to MaxWords words
WideDocs ==
    SmallDocs \cup {Page(Words(n), <<>>, <<<<"A">>>>, Prefix(Words(n), 5)) : n \in 1..MaxWords}

\* file contents around the 300-character limit and the rounding ties
\* (150 words are 299 characters, 300 with a final newline; 151 are 301)
LocalWordCounts == {3, 100, 150, 151, 300, MaxWords}
WideTexts ==
    SmallTexts \cup {<<>>, Words(150) \o <<"\n">>}
      \cup {Words(n) : n \in LocalWordCounts}

FileStates(Texts) ==
    {[exists |-> FALSE, text |-> <<>>]} \cup {[exists |-> TRUE, text |-> t] : t \in Texts}

(***************************************************************************)
(* Specifications                                                          *)
(***************************************************************************)
InitOf(Texts) ==
    /\ file \in FileStates(Texts)
    /\ log = [r \in Req |-> <<>>]
    /\ req = [r \in Req |-> IdleReq]

\* the steps of the requests in R
Handle(R, Docs, Scores) ==
    \E r \in R :
        \/ \E p \in Payloads : Receive(r, "analyze", p)
        \/ Receive(r, "analyze_local", NoJson)
        \/ AnalyzeValidate(r)
        \/ AnalyzeDownload(r, Docs)
        \/ AnalyzeParse(r)
        \/ AnalyzeNlp(r)
        \/ AnalyzeRespond(r, Scores)
        \/ AnalyzeExceptLog(r)
        \/ AnalyzeExceptReturn(r)
        \/ LocalExists(r)
        \/ LocalRead(r)
        \/ LocalRespond(r, Scores)
        \/ LocalExceptLog(r)
        \/ LocalExceptReturn(r)

\* concurrent requests over a file that others may replace or remove
Init == InitOf(SmallTexts)
Next ==
    \/ Handle(Req, SmallDocs, SmallScores)
    \/ RemoveFile
    \/ \E t \in SmallTexts : WriteFile(t)
Spec == Init /\ [][Next]_vars

\* one request, every score of the NLP library
InitScore == InitOf(SmallTexts)
NextScore ==
    \/ Handle({1}, SmallDocs, WideScores)
    \/ RemoveFile
SpecScore == InitScore /\ [][NextScore]_vars

\* one request, texts of every length
InitText == InitOf(WideTexts)
NextText ==
    \/ Handle({1}, WideDocs, SmallScores)
    \/ RemoveFile
SpecText == InitText /\ [][NextText]_vars

(***************************************************************************)
(* What a finished request went through                                    *)
(***************************************************************************)
Done(r) == req[r].pc = "done"
IsAnalyze(r) == req[r].kind = "analyze"
IsLocal(r) == req[r].kind = "analyze_local"
Ok(r) == Done(r) /\ req[r].resp.status = 200

\* the request supplies no URL: no JSON object, no "url" key, or null or ''
NoUrlSupplied(p) == p.json # "object" \/ ~Truthy(DictGet(p.obj, "url"))

ParseCompleted(r) == req[r].calls.parse = 1 /\ req[r].exc # ErrParse
NlpCompleted(r) == req[r].calls.nlp = 1 /\ req[r].exc # ErrNlp

LoggedError(r) == \E i \in 1..Len(log[r]) : log[r][i].level = "error"

FailurePrefix == <<"Failed to analyze article: ">>

(***************************************************************************)
(* C1: a POST /analyze request that supplies no URL (no JSON object at     *)
(* all, no "url" key, or a null or empty "url") is answered 400            *)
(* {error: "No URL provided"} and never reaches the extraction library.    *)
(* Refuted: with no JSON object the handler answers 500.                   *)
(***************************************************************************)
C1_NoUrlIs400 ==
    \A r \in Req :
        (IsAnalyze(r) /\ Done(r) /\ NoUrlSupplied(req[r].payload))
            => /\ req[r].resp = JsonError(400, <<"No URL provided">>)
               /\ req[r].calls.download = 0

(***************************************************************************)
(* C2 as stated: once download and parse have completed with an empty      *)
(* text, the answer is 400 {error: "Unable to fetch article content"},     *)
(* never 200 or 500, and the text is never scored.  Refuted: nlp() runs    *)
(* before the text is looked at and may raise.                             *)
(***************************************************************************)
C2_EmptyTextIs400 ==
    \A r \in Req :
        (IsAnalyze(r) /\ Done(r) /\ ParseCompleted(r) /\ req[r].art.text = <<>>)
            => /\ req[r].resp = JsonError(400, <<"Unable to fetch article content">>)
               /\ req[r].calls.blob = 0

(***************************************************************************)
(* C2 amended: once download, parse and nlp have all completed with an     *)
(* empty text, the answer is 400 {error: "Unable to fetch article          *)
(* content"}, never 200 or 500, and the text is never scored.              *)
(***************************************************************************)
C2_EmptyTextAfterNlpIs400 ==
    \A r \in Req :
        (IsAnalyze(r) /\ NlpCompleted(r) /\ req[r].art.text = <<>>)
            => /\ req[r].calls.blob = 0
               /\ req[r].resp.status \in {0, 400}
               /\ Done(r) => req[r].resp = JsonError(400, <<"Unable to fetch article content">>)

C2_Witness ==
    \E r \in Req :
        /\ IsAnalyze(r) /\ Done(r) /\ NlpCompleted(r)
        /\ req[r].doc = EmptyPage
        /\ req[r].resp.status = 400

(***************************************************************************)
(* C3: an exception at any step of analyze aborts the request: the only    *)
(* response is 500 {error: "Failed to analyze article: <message>"}, no     *)
(* later step of the pipeline runs, the download is attempted at most      *)
(* once, and no 200 is returned.                                           *)
(***************************************************************************)
C3_ExceptionAborts ==
    \A r \in Req :
        (IsAnalyze(r) /\ req[r].exc # <<>>)
            => LET c == req[r].calls
                   e == req[r].exc
               IN  /\ req[r].pc \in {"except", "except_logged", "done"}
                   /\ req[r].resp.status \in {0, 500}
                   /\ Done(r) => req[r].resp = JsonError(500, FailurePrefix \o e)
                   /\ c.download <= 1
                   /\ e \in {Err415, ErrNoneGet} => c = NoCalls
                   /\ e = ErrDownload => c.parse = 0 /\ c.nlp = 0 /\ c.blob = 0
                   /\ e = ErrParse => c.nlp = 0 /\ c.blob = 0
                   /\ e = ErrNlp => c.blob = 0
                   /\ e = ErrBlob => c.blob = 1

C3_Witness ==
    \E r \in Req :
        /\ IsAnalyze(r) /\ Done(r)
        /\ req[r].exc = ErrNlp
        /\ req[r].resp.status = 500

(***************************************************************************)
(* C4: GET /analyze_local answers 400 {error: "sample_article.txt not      *)
(* found"} whenever it finds the file absent, and 400 {error: "sample      *)
(* article is empty"} when the text it read is blank; never 200 or 500,    *)
(* also when the file is removed while the request runs.  Refuted: a file  *)
(* removed between the existence test and the open gives 500.              *)
(***************************************************************************)
C4_AbsentOrBlankIs400 ==
    \A r \in Req :
        (IsLocal(r) /\ Done(r))
            => /\ (~req[r].sawFile \/ req[r].exc = ErrNoFile)
                    => req[r].resp = JsonError(400, <<"sample_article.txt not found">>)
               /\ (req[r].sawFile /\ req[r].exc = <<>> /\ IsBlank(req[r].text))
                    => req[r].resp = JsonError(400, <<"sample article is empty">>)

(***************************************************************************)
(* C5 as stated: every failed request, 400 or 500, has a failure entry in  *)
(* the server log by the time its response exists, and its body carries    *)
(* an "error" field.  Refuted: the 400 paths log no failure.               *)
(***************************************************************************)
C5_EveryFailureLogged ==
    \A r \in Req :
        req[r].resp.status \in {400, 500}
            => LoggedError(r) /\ "error" \in DOMAIN req[r].resp.body

(***************************************************************************)
(* C5 amended: every request that ends in 500 has an error-level entry     *)
(* with the exception's message in the server log by the time its          *)
(* response exists; every 400 or 500 response is a body with just an       *)
(* "error" field; a request that ends in 400 logs no failure.              *)
(***************************************************************************)
C5_ServerErrorsLogged ==
    \A r \in Req :
        /\ req[r].resp.status = 500
             => \E i \in 1..Len(log[r]) :
                    /\ log[r][i].level = "error"
                    /\ log[r][i].msg =
                         (IF IsAnalyze(r) THEN <<"Error analyzing article: ">>
                          ELSE <<"Error analyzing local article: ">>) \o req[r].exc
        /\ req[r].resp.status \in {400, 500} => DOMAIN req[r].resp.body = {"error"}
        /\ req[r].resp.status = 400 => ~LoggedError(r)

C5_Witness ==
    \E r, q \in Req :
        /\ IsAnalyze(r) /\ req[r].resp.status = 500 /\ LoggedError(r)
        /\ req[q].resp.status = 400

(***************************************************************************)
(* C6: whatever ran before or alongside it, the response of a request is   *)
(* a function of its own inputs only: its payload, what the extraction     *)
(* library and the file system gave it, the exception it met, and the      *)
(* scores of its text.                                                     *)
(***************************************************************************)
OwnOutcome(r) ==
    LET q == req[r]
        d == q.doc
    IN  IF q.kind = "analyze"
        THEN IF q.payload.json # "object" THEN JsonError(500, FailurePrefix \o q.exc)
             ELSE IF NoUrlSupplied(q.payload) THEN JsonError(400, <<"No URL provided">>)
             ELSE IF q.exc # <<>> THEN JsonError(500, FailurePrefix \o q.exc)
             ELSE IF d.text = <<>> THEN JsonError(400, <<"Unable to fetch article content">>)
             ELSE [status |-> 200,
                   body |-> Analysis(OrNA(d.title), OrNA(Join(d.authors, <<",", " ">>)),
                                     OrNA(d.summary), d.text, q.score)]
        ELSE IF ~q.sawFile THEN JsonError(400, <<"sample_article.txt not found">>)
             ELSE IF q.exc # <<>> THEN JsonError(500, q.exc)
             ELSE IF IsBlank(q.text) THEN JsonError(400, <<"sample article is empty">>)
             ELSE [status |-> 200,
                   body |-> Analysis(<<"Sample Article">>, <<"Local Test">>,
                                     SummaryLocal(q.text), q.text, q.score)]

C6_ResponseFromOwnInputs ==
    \A r \in Req : Done(r) => req[r].resp = OwnOutcome(r)

\* two requests that overlapped, one of each kind, both answered 200
C6_Witness ==
    /\ Ok(1) /\ IsLocal(1)
    /\ Ok(2) /\ IsAnalyze(2)
    /\ req[2].doc = NewsPage
    /\ req[1].score # req[2].score

(***************************************************************************)
(* C7 as stated: for the polarity p the NLP library returns, "sentiment"   *)
(* is "Positive" iff p > 0, "Negative" iff p < 0, "Neutral" iff p = 0.     *)
(* Refuted: the comparison is made on p rounded to two decimals.           *)
(***************************************************************************)
C7_SentimentFollowsRawPolarity ==
    \A r \in Req :
        Ok(r) => LET p == req[r].score.pol
                     s == req[r].resp.body.sentiment
                 IN  /\ s = "Positive" <=> p > 0
                     /\ s = "Negative" <=> p < 0
                     /\ s = "Neutral" <=> p = 0

(***************************************************************************)
(* C7 amended: "sentiment" is "Positive" iff the reported polarity (p      *)
(* rounded to two decimals) is > 0, "Negative" iff it is < 0, "Neutral"    *)
(* iff it is 0; in terms of p (thousandths): Positive iff p >= 0.005,      *)
(* Negative iff p <= -0.005, Neutral in between.                           *)
(***************************************************************************)
C7_SentimentFollowsRoundedPolarity ==
    \A r \in Req :
        Ok(r) => LET p == req[r].score.pol
                     reported == req[r].resp.body.polarity
                     s == req[r].resp.body.sentiment
                 IN  /\ s = "Positive" <=> reported > 0
                     /\ s = "Negative" <=> reported < 0
                     /\ s = "Neutral" <=> reported = 0
                     /\ s = "Positive" <=> p >= 5
                     /\ s = "Negative" <=> p <= 0 - 5
                     /\ s = "Neutral" <=> (0 - 5 < p /\ p < 5)

C7_Witness ==
    \E r \in Req :
        /\ Ok(r) /\ IsLocal(r)
        /\ req[r].score.pol = 4
        /\ req[r].resp.body.sentiment = "Neutral"
        /\ req[r].resp.body.polarity = 0

(***************************************************************************)
(* C8: for the subjectivity s of a 200 response, "bias" is "Low" iff       *)
(* s < 0.3, "Moderate" iff 0.3 <= s < 0.7, "High" iff s >= 0.7, and        *)
(* "credibility" is "True" iff s < 0.5 and "False" otherwise; so "Low"     *)
(* comes with "True" and "High" with "False".                              *)
(***************************************************************************)
C8_BiasAndCredibilityThresholds ==
    \A r \in Req :
        Ok(r) => LET s == req[r].score.subj
                     b == req[r].resp.body.bias
                     c == req[r].resp.body.credibility
                 IN  /\ b = "Low" <=> s < 300
                     /\ b = "Moderate" <=> (300 <= s /\ s < 700)
                     /\ b = "High" <=> s >= 700
                     /\ c = "True" <=> s < 500
                     /\ c = "False" <=> s >= 500
                     /\ b = "Low" => c = "True"
                     /\ b = "High" => c = "False"

C8_Witness ==
    \E r \in Req :
        /\ Ok(r) /\ IsAnalyze(r)
        /\ req[r].score.subj = 700
        /\ req[r].resp.body.bias = "High"
        /\ req[r].resp.body.credibility = "False"

(***************************************************************************)
(* C9: the minutes N of "<N> min read" are word_count / 200 rounded to     *)
(* the nearest integer, an exact half to the even one, and never decrease  *)
(* as the word count grows: 3 and 100 words give 0, 300 and 500 give 2.    *)
(***************************************************************************)
IsNearestHalfEven(n, w) ==
    /\ 200 * n - w \in -100..100
    /\ 200 * n - w \in {-100, 100} => n % 2 = 0

MinutesOf(w) == CHOOSE n \in 0..(w \div 200 + 1) : IsNearestHalfEven(n, w)

C9_ReadingTimeMonotone ==
    \A r \in Req :
        Ok(r) => LET w == req[r].resp.body.word_count
                     t == req[r].resp.body.reading_time
                 IN  /\ t = Digits(MinutesOf(w)) \o <<" min read">>
                     /\ \A a \in 0..w : MinutesOf(a) <= MinutesOf(w)
                     /\ w \in {3, 100} => t = <<"0", " min read">>
                     /\ w \in {300, 500} => t = <<"2", " min read">>

C9_Witness ==
    \E r \in Req :
        /\ Ok(r) /\ IsAnalyze(r)
        /\ req[r].resp.body.word_count = 300
        /\ req[r].resp.body.reading_time = <<"2", " min read">>

(***************************************************************************)
(* C10: for a non-blank sample text t, the "summary" of analyze_local is   *)
(* the first 300 characters of t followed by "..." when t is longer than   *)
(* 300 characters, and t itself when it has 300 characters or fewer;       *)
(* title and author are "Sample Article" and "Local Test".                 *)
(***************************************************************************)
C10_LocalSummaryTruncation ==
    \A r \in Req :
        (Ok(r) /\ IsLocal(r))
            => LET t == req[r].text
                   b == req[r].resp.body
               IN  /\ b.title = <<"Sample Article">>
                   /\ b.author = <<"Local Test">>
                   /\ Len(t) > 300
                        => b.summary = [i \in 1..303 |-> IF i <= 300 THEN t[i] ELSE "."]
                   /\ Len(t) <= 300 => b.summary = t

C10_Witness ==
    \E r \in Req :
        /\ Ok(r) /\ IsLocal(r)
        /\ Len(req[r].text) = 300
        /\ req[r].resp.body.summary = req[r].text

============================================================================
